---- MODULE Spec2Model ----
(***************************************************************************)
(* notion-to-markdown: src/src/lib.rs.                                     *)
(*                                                                         *)
(* convert_rich_text is a pure function on one rich-text span.             *)
(* convert_blocks is an async recursive function: it walks a sequence of   *)
(* blocks, renders each by a per-type rule, and for a column_list block    *)
(* with has_children it awaits the Notion client's children().list() for   *)
(* the list and then for every column, calling itself on each column's     *)
(* children.  Every such await is followed by .unwrap().                   *)
(*                                                                         *)
(* Strings are TLA+ strings, built with \o as format!() builds them.       *)
(***************************************************************************)
EXTENDS Naturals, Integers, Sequences, FiniteSets, TLC

VARIABLES
    page,       \* the block tree the Notion service holds (never changes)
    stack,      \* activations of convert_blocks, outermost first
    status,     \* "idle" | "running" | "ok" | "panicked" : the top-level call
    result,     \* the String of Ok(..) once status = "ok"
    fetches,    \* ids passed to children().list(), in call order
    inflight,   \* ids of children().list() calls awaited and not yet answered
    failed,     \* ids whose children().list() answered Err
    stdout,     \* lines written to the process's standard output
    text,       \* argument of a direct call of convert_rich_text
    string      \* what that call returned

vars == <<page, stack, status, result, fetches, inflight, failed, stdout, text, string>>

-----------------------------------------------------------------------------
(* Bounds *)

\* longest top-level sequence drawn from the full set of block kinds
MaxLen == 2
\* most nodes (blocks, columns included) in a tree with fetched children
MaxNodes == 5
\* longest text content of a span handed to convert_rich_text directly
MaxContentLen == 2

-----------------------------------------------------------------------------
(* notion::RichText *)

Span(kind, content, bold, italic, code) ==
    [kind |-> kind, content |-> content,
     bold |-> bold, italic |-> italic, code |-> code]

Plain(content) == Span("text", content, FALSE, FALSE, FALSE)

\* the variants other than Text carry no text content of their own
Mention == Span("mention", "", FALSE, FALSE, FALSE)
EquationSpan == Span("equation", "", FALSE, FALSE, FALSE)

\* U+0060, the Markdown code delimiter: the TLA+ lexer admits no grave accent
\* in a string, so the model writes it as an apostrophe
Backtick == "'"

ContentAlphabet == {"a", "*", Backtick}

RECURSIVE ContentsUpTo(_)
ContentsUpTo(n) ==
    IF n = 0 THEN {""}
    ELSE ContentsUpTo(n - 1)
         \cup {c \o s : c \in ContentAlphabet,
                        s \in {x \in ContentsUpTo(n - 1) : Len(x) = n - 1}}

RichTexts ==
    {Span("text", c, b, i, k) :
        c \in ContentsUpTo(MaxContentLen), b \in BOOLEAN, i \in BOOLEAN, k \in BOOLEAN}
    \cup {Mention, EquationSpan}

-----------------------------------------------------------------------------
(* convert_rich_text *)

\* a slip in the order of the wraps: the code wrap applied before the others
convert_rich_text_CodeFirst(t) ==
    IF t.kind = "text"
    THEN LET s0 == t.content
             s1 == IF t.code THEN Backtick \o s0 \o Backtick ELSE s0
             s2 == IF t.bold THEN "**" \o s1 \o "**" ELSE s1
             s3 == IF t.italic THEN "*" \o s2 \o "*" ELSE s2
         IN s3
    ELSE ""

convert_rich_text(t) ==
    IF t.kind = "text"
    THEN LET s0 == t.content
             s1 == IF t.bold THEN "**" \o s0 \o "**" ELSE s0
             s2 == IF t.italic THEN "*" \o s1 \o "*" ELSE s1
             s3 == IF t.code THEN Backtick \o s2 \o Backtick ELSE s2
         IN s3
    ELSE ""

\* rich_text.iter().map(|text| convert_rich_text(text)).collect::<String>()
RECURSIVE collect(_)
collect(rich_text) ==
    IF rich_text = <<>> THEN ""
    ELSE convert_rich_text(Head(rich_text)) \o collect(Tail(rich_text))

-----------------------------------------------------------------------------
(* notion::Block, as the service holds it: the payload of its BlockType and *)
(* the children the service returns for its id.                            *)

NoIcon == [kind |-> "none", emoji |-> ""]
NoFile == [kind |-> "none", url |-> ""]

Node(type, has_children, rich_text, children) ==
    [type |-> type, has_children |-> has_children, rich_text |-> rich_text,
     language |-> "", checked |-> "None", icon |-> NoIcon, file |-> NoFile,
     children |-> children]

Leaf(type) == Node(type, FALSE, <<>>, <<>>)
TextBlock(type, rich_text) == Node(type, FALSE, rich_text, <<>>)
ParagraphOf(content) == TextBlock("paragraph", <<Plain(content)>>)
External(url) == [kind |-> "external", url |-> url]
Hosted(url) == [kind |-> "file", url |-> url]

\* the BlockType variants of the last arm of the match
NoOutputTypes ==
    {"column", "table", "bookmark", "file", "pdf", "table_of_contents",
     "child_page", "child_database", "synced_block", "template", "toggle",
     "breadcrumb", "embed", "equation", "link_preview", "table_row",
     "link_to_page"}

\* what the client hands to convert_blocks: the block with its id, without
\* the children, which only children().list() returns
View(node, id) ==
    [type |-> node.type, has_children |-> node.has_children,
     rich_text |-> node.rich_text, language |-> node.language,
     checked |-> node.checked, icon |-> node.icon, file |-> node.file,
     id |-> id]

\* ids are the block's place in the tree: <<2>> is the second top-level
\* block, <<2, 1>> its first child
Views(nodes, parent) == [k \in 1..Len(nodes) |-> View(nodes[k], parent \o <<k>>)]

RECURSIVE ChildrenAt(_, _)
ChildrenAt(nodes, id) ==
    IF id = <<>> THEN nodes
    ELSE IF Head(id) \in 1..Len(nodes)
         THEN ChildrenAt(nodes[Head(id)].children, Tail(id))
         ELSE <<>>

\* notion.blocks.children().list(block_id).results, when the call succeeds
ListResults(id) == Views(ChildrenAt(page, id), id)

-----------------------------------------------------------------------------
(* the per-type rules of convert_blocks: Option<String> *)

None == [some |-> FALSE, string |-> ""]
Some(s) == [some |-> TRUE, string |-> s]

\* serde_variant::to_variant_name(&code.language).unwrap()
to_variant_name(language) ==
    CASE language = "Rust" -> "rust"
      [] language = "PlainText" -> "plain text"
      [] OTHER -> "javascript"

markdown_heading(block) ==
    CASE block.type = "heading_1" -> "#"
      [] block.type = "heading_2" -> "##"
      [] OTHER -> "###"

Heading(block) == Some(markdown_heading(block) \o " " \o collect(block.rich_text))

Paragraph(block) == Some(collect(block.rich_text))

Fence == Backtick \o Backtick \o Backtick

Code(block) ==
    Some(Fence \o to_variant_name(block.language) \o "\n"
         \o collect(block.rich_text) \o "\n" \o Fence)

ToDo(block) ==
    LET checked == IF block.checked = "Some(true)" THEN "x" ELSE " "
    IN Some("[" \o checked \o "] " \o collect(block.rich_text))

Callout(block) ==
    LET icon == IF block.icon.kind = "emoji" THEN block.icon.emoji ELSE ""
    IN Some("> " \o icon \o " " \o collect(block.rich_text))

\* a slip: the url of a hosted file used like that of an external one
Image_AnyFile(block) ==
    Some("<img style=\"margin: 0 auto\" src=\"" \o block.file.url \o "\">")

Image(block) ==
    IF block.file.kind = "external"
    THEN Some("<img style=\"margin: 0 auto\" src=\"" \o block.file.url \o "\">")
    ELSE None

Video(block) ==
    IF block.file.kind = "external"
    THEN Some("<video controls src=\"" \o block.file.url \o "\" />")
    ELSE None

\* the arms of the match that await nothing
RenderBlock(block) ==
    CASE block.type \in {"heading_1", "heading_2", "heading_3"} -> Heading(block)
      [] block.type = "paragraph" -> Paragraph(block)
      [] block.type = "code" -> Code(block)
      [] block.type = "bulleted_list_item" -> Some("* " \o collect(block.rich_text))
      [] block.type = "numbered_list_item" -> Some("1. " \o collect(block.rich_text))
      [] block.type = "to_do" -> ToDo(block)
      [] block.type = "quote" -> Some("> " \o collect(block.rich_text))
      [] block.type = "callout" -> Callout(block)
      [] block.type = "image" -> Image(block)
      [] block.type = "video" -> Video(block)
      [] block.type = "divider" -> Some("---")
      [] block.type = "unsupported" -> None
      [] block.type = "column_list" -> None
      [] block.type \in NoOutputTypes -> None

\* a slip: the has_children test left out
ExpandsColumns_AnyList(block) == block.type = "column_list"

\* the one arm that awaits: BlockType::ColumnList with block.has_children
ExpandsColumns(block) == block.type = "column_list" /\ block.has_children

\* what the Unsupported arm writes to standard output: its println! is
\* commented out
Println(block) == <<>>

\* a slip: the separator written after every string, the last included
RECURSIVE join_Trailing(_, _)
join_Trailing(strings, sep) ==
    IF strings = <<>> THEN ""
    ELSE strings[1] \o sep \o join_Trailing(Tail(strings), sep)

\* Vec<String>::join(sep)
RECURSIVE join(_, _)
join(strings, sep) ==
    IF strings = <<>> THEN ""
    ELSE IF Len(strings) = 1 THEN strings[1]
    ELSE strings[1] \o sep \o join(Tail(strings), sep)

MarginDiv(column) == "<div style=\"margin: 0 16px\">" \o column \o "</div>"

\* a slip: the columns joined without their margin <div>
FlexDiv_Bare(content) ==
    "<div style=\"display: flex;\">" \o join(content, "\n") \o "</div>"

FlexDiv(content) ==
    "<div style=\"display: flex;\">"
    \o join([k \in 1..Len(content) |-> MarginDiv(content[k])], "\n")
    \o "</div>"

-----------------------------------------------------------------------------
(* The inputs: pages of the service *)

RichA == <<Plain("A")>>

\* one block or more of every BlockType variant, none with children to fetch
FlatBlocks ==
    {ParagraphOf("A"), ParagraphOf("B"),
     TextBlock("paragraph", <<>>),
     TextBlock("paragraph", <<Mention>>),
     TextBlock("paragraph",
               <<Span("text", "A", TRUE, FALSE, FALSE), EquationSpan,
                 Span("text", "B", FALSE, TRUE, TRUE)>>),
     TextBlock("heading_1", RichA), TextBlock("heading_2", RichA),
     TextBlock("heading_3", RichA),
     [TextBlock("code", RichA) EXCEPT !.language = "Rust"],
     [TextBlock("bulleted_list_item", RichA) EXCEPT !.has_children = TRUE],
     TextBlock("numbered_list_item", RichA),
     TextBlock("to_do", RichA),
     [TextBlock("to_do", RichA) EXCEPT !.checked = "Some(true)"],
     [TextBlock("to_do", RichA) EXCEPT !.checked = "Some(false)"],
     TextBlock("quote", RichA),
     TextBlock("callout", RichA),
     [TextBlock("callout", RichA) EXCEPT !.icon = [kind |-> "emoji", emoji |-> "!"]],
     [TextBlock("callout", RichA) EXCEPT !.icon = [kind |-> "external", emoji |-> ""]],
     [Leaf("image") EXCEPT !.file = External("http://x/y.png")],
     [Leaf("image") EXCEPT !.file = Hosted("http://s3/y.png")],
     [Leaf("video") EXCEPT !.file = External("http://x/v.mp4")],
     [Leaf("video") EXCEPT !.file = Hosted("http://s3/v.mp4")],
     Leaf("divider"), Leaf("unsupported"), Leaf("column_list")}
    \cup {[Leaf(t) EXCEPT !.has_children = (t \in {"column", "toggle"})] :
            t \in NoOutputTypes}

RECURSIVE SeqsUpTo(_, _)
SeqsUpTo(S, n) ==
    IF n = 0 THEN {<<>>}
    ELSE SeqsUpTo(S, n - 1)
         \cup {<<x>> \o s : x \in S, s \in {y \in SeqsUpTo(S, n - 1) : Len(y) = n - 1}}

FlatPages == SeqsUpTo(FlatBlocks, MaxLen)

\* the blocks inside a tree with column lists
TreeLeaves == {ParagraphOf("X"), ParagraphOf("Y"), Leaf("unsupported")}

ColumnList(columns) == Node("column_list", TRUE, <<>>, columns)
Column(children) == Node("column", children # <<>>, <<>>, children)

\* the forests (sequences of sibling blocks) of exactly n nodes, the trees of
\* exactly n nodes, and the sequences of columns of exactly n nodes in all
RECURSIVE ForestsOfSize(_), TreesOfSize(_), ColumnsOfSize(_)
ForestsOfSize(n) ==
    IF n = 0 THEN {<<>>}
    ELSE UNION {{<<t>> \o rest : t \in TreesOfSize(k), rest \in ForestsOfSize(n - k)} :
                    k \in 1..n}

TreesOfSize(n) ==
    IF n = 1 THEN TreeLeaves \cup {ColumnList(<<>>)}
    ELSE {ColumnList(columns) : columns \in ColumnsOfSize(n - 1)}

ColumnsOfSize(n) ==
    IF n = 0 THEN {<<>>}
    ELSE UNION {{<<Column(children)>> \o rest :
                    children \in ForestsOfSize(k - 1), rest \in ColumnsOfSize(n - k)} :
                    k \in 1..n}

TreePages == UNION {ForestsOfSize(n) : n \in 0..MaxNodes}

-----------------------------------------------------------------------------
(* convert_blocks: one activation, and the steps between its awaits *)

Frame(blocks) ==
    [blocks |-> blocks, i |-> 1, output |-> <<>>, pc |-> "loop",
     columns |-> <<>>, j |-> 1, content |-> <<>>]

Top == stack[Len(stack)]
SetTop(frame) == [stack EXCEPT ![Len(stack)] = frame]
Block == Top.blocks[Top.i]

Idle ==
    /\ stack = <<>>
    /\ status = "idle"
    /\ result = ""
    /\ fetches = <<>>
    /\ inflight = {}
    /\ failed = {}
    /\ stdout = <<>>

\* a caller calls convert_blocks(&notion, &blocks) on the page's top-level blocks
InitPage(pages) ==
    /\ page \in pages
    /\ stack = <<Frame(Views(page, <<>>))>>
    /\ status = "running"
    /\ result = ""
    /\ fetches = <<>>
    /\ inflight = {}
    /\ failed = {}
    /\ stdout = <<>>
    /\ text = Mention
    /\ string = ""

Init == InitPage(FlatPages \cup TreePages)

Running == status = "running" /\ stack # <<>>

\* a slip: the string of a None pushed too (unwrap_or_default)
Step_PushesEmpty ==
    /\ Running
    /\ Top.pc = "loop"
    /\ Top.i <= Len(Top.blocks)
    /\ ~ExpandsColumns(Block)
    /\ stack' = SetTop([Top EXCEPT !.output = Append(@, RenderBlock(Block).string),
                                   !.i = @ + 1])
    /\ UNCHANGED <<page, status, result, fetches, inflight, failed, stdout, text, string>>

\* one turn of the for loop over a block whose arm awaits nothing
Step ==
    /\ Running
    /\ Top.pc = "loop"
    /\ Top.i <= Len(Top.blocks)
    /\ ~ExpandsColumns(Block)
    /\ LET s == RenderBlock(Block)
       IN stack' = SetTop([Top EXCEPT
                !.output = IF s.some THEN Append(@, s.string) ELSE @,
                !.i = @ + 1])
    /\ stdout' = stdout \o (IF Block.type = "unsupported" THEN Println(Block) ELSE <<>>)
    /\ UNCHANGED <<page, status, result, fetches, inflight, failed, text, string>>

\* children().list(block_id: &block.id).await
ListColumns ==
    /\ Running
    /\ Top.pc = "loop"
    /\ Top.i <= Len(Top.blocks)
    /\ ExpandsColumns(Block)
    /\ fetches' = Append(fetches, Block.id)
    /\ inflight' = inflight \cup {Block.id}
    /\ stack' = SetTop([Top EXCEPT !.pc = "await_columns"])
    /\ UNCHANGED <<page, status, result, failed, stdout, text, string>>

\* the call answers Ok: .unwrap().results
ColumnsOk ==
    /\ Running
    /\ Top.pc = "await_columns"
    /\ inflight' = inflight \ {Block.id}
    /\ stack' = SetTop([Top EXCEPT !.pc = "columns", !.columns = ListResults(Block.id),
                                   !.j = 1, !.content = <<>>])
    /\ UNCHANGED <<page, status, result, fetches, failed, stdout, text, string>>

\* .unwrap() of an Err panics: the call never returns to its caller
Panic(id) ==
    /\ inflight' = inflight \ {id}
    /\ failed' = failed \cup {id}
    /\ status' = "panicked"
    /\ stack' = <<>>
    /\ UNCHANGED <<page, result, fetches, stdout, text, string>>

ColumnsErr ==
    /\ Running
    /\ Top.pc = "await_columns"
    /\ Panic(Block.id)

\* a slip: the calls for all the columns issued together (join_all)
ListChildren_Together ==
    /\ Running
    /\ Top.pc = "columns"
    /\ Top.j <= Len(Top.columns)
    /\ fetches' = fetches \o [c \in 1..(Len(Top.columns) - Top.j + 1) |->
                                Top.columns[Top.j + c - 1].id]
    /\ inflight' = inflight \cup {Top.columns[c].id : c \in Top.j..Len(Top.columns)}
    /\ stack' = SetTop([Top EXCEPT !.pc = "await_children"])
    /\ UNCHANGED <<page, status, result, failed, stdout, text, string>>

\* a slip: no call for a column whose has_children is false
ListChildren_SkipsChildless ==
    /\ Running
    /\ Top.pc = "columns"
    /\ Top.j <= Len(Top.columns)
    /\ IF Top.columns[Top.j].has_children
       THEN /\ fetches' = Append(fetches, Top.columns[Top.j].id)
            /\ inflight' = inflight \cup {Top.columns[Top.j].id}
            /\ stack' = SetTop([Top EXCEPT !.pc = "await_children"])
       ELSE /\ stack' = SetTop([Top EXCEPT !.content = Append(@, ""), !.j = @ + 1])
            /\ UNCHANGED <<fetches, inflight>>
    /\ UNCHANGED <<page, status, result, failed, stdout, text, string>>

\* for column in columns.iter(): children().list(block_id: &column.id).await
ListChildren ==
    /\ Running
    /\ Top.pc = "columns"
    /\ Top.j <= Len(Top.columns)
    /\ fetches' = Append(fetches, Top.columns[Top.j].id)
    /\ inflight' = inflight \cup {Top.columns[Top.j].id}
    /\ stack' = SetTop([Top EXCEPT !.pc = "await_children"])
    /\ UNCHANGED <<page, status, result, failed, stdout, text, string>>

\* the call answers Ok: convert_blocks(&notion, &children) is entered
ChildrenOk ==
    /\ Running
    /\ Top.pc = "await_children"
    /\ inflight' = inflight \ {Top.columns[Top.j].id}
    /\ stack' = Append(SetTop([Top EXCEPT !.pc = "await_convert"]),
                       Frame(ListResults(Top.columns[Top.j].id)))
    /\ UNCHANGED <<page, status, result, fetches, failed, stdout, text, string>>

ChildrenErr ==
    /\ Running
    /\ Top.pc = "await_children"
    /\ Panic(Top.columns[Top.j].id)

\* Ok(output.join("\n\n")) of an inner call: content.push(... .unwrap())
Return ==
    /\ Running
    /\ Len(stack) > 1
    /\ Top.pc = "loop"
    /\ Top.i > Len(Top.blocks)
    /\ LET caller == stack[Len(stack) - 1]
       IN stack' = [SubSeq(stack, 1, Len(stack) - 1) EXCEPT ![Len(stack) - 1] =
                [caller EXCEPT !.content = Append(@, join(Top.output, "\n\n")),
                               !.j = @ + 1, !.pc = "columns"]]
    /\ UNCHANGED <<page, status, result, fetches, inflight, failed, stdout, text, string>>

\* after the last column: Some(format!(<div style="display: flex;">..</div>))
EndColumns ==
    /\ Running
    /\ Top.pc = "columns"
    /\ Top.j > Len(Top.columns)
    /\ stack' = SetTop([Top EXCEPT !.output = Append(@, FlexDiv(Top.content)),
                                   !.i = @ + 1, !.pc = "loop"])
    /\ UNCHANGED <<page, status, result, fetches, inflight, failed, stdout, text, string>>

\* Ok(output.join("\n\n")) of the outermost call
ReturnTop ==
    /\ Running
    /\ Len(stack) = 1
    /\ Top.pc = "loop"
    /\ Top.i > Len(Top.blocks)
    /\ status' = "ok"
    /\ result' = join(Top.output, "\n\n")
    /\ stack' = <<>>
    /\ UNCHANGED <<page, fetches, inflight, failed, stdout, text, string>>

Next ==
    \/ Step
    \/ ListColumns
    \/ ColumnsOk
    \/ ColumnsErr
    \/ ListChildren
    \/ ChildrenOk
    \/ ChildrenErr
    \/ Return
    \/ EndColumns
    \/ ReturnTop

Spec == Init /\ [][Next]_vars

\* The service answers every children().list() call with Ok, and the
\* executor polls the future of the top-level call until it is ready.
InitTree == InitPage(TreePages)

NextOk ==
    \/ Step
    \/ ListColumns
    \/ ColumnsOk
    \/ ListChildren
    \/ ChildrenOk
    \/ Return
    \/ EndColumns
    \/ ReturnTop

FairSpec == InitTree /\ [][NextOk]_vars /\ WF_vars(NextOk)

\* A caller calls convert_rich_text(&text) on one span.
InitInline ==
    /\ Idle
    /\ page = <<>>
    /\ text \in RichTexts
    /\ string = ""

ConvertRichText ==
    /\ status = "idle"
    /\ string' = convert_rich_text(text)
    /\ status' = "ok"
    /\ UNCHANGED <<page, stack, result, fetches, inflight, failed, stdout, text>>

NextInline == ConvertRichText

SpecInline == InitInline /\ [][NextInline]_vars

-----------------------------------------------------------------------------
(* What the claims expect, stated on the page the service holds *)

IsColumnList(node) == node.type = "column_list" /\ node.has_children

\* s1 sep s2 sep ... sn, built from the left
RECURSIVE Separated(_, _)
Separated(strings, sep) ==
    IF Len(strings) = 0 THEN ""
    ELSE IF Len(strings) = 1 THEN strings[1]
    ELSE Separated(SubSeq(strings, 1, Len(strings) - 1), sep)
         \o sep \o strings[Len(strings)]

RECURSIVE Concat(_)
Concat(seqs) == IF seqs = <<>> THEN <<>> ELSE Head(seqs) \o Concat(Tail(seqs))

\* the fragments the blocks of a sibling sequence yield, in order, a block
\* with no output giving none; a column list gives one flex <div> of one
\* margin <div> per column, each holding the document of the column's children
RECURSIVE ExpectedFragments(_), ExpectedDocument(_)
ExpectedFragments(nodes) ==
    Concat([k \in 1..Len(nodes) |->
        IF IsColumnList(nodes[k])
        THEN <<"<div style=\"display: flex;\">"
               \o Separated([c \in 1..Len(nodes[k].children) |->
                      "<div style=\"margin: 0 16px\">"
                      \o ExpectedDocument(nodes[k].children[c].children)
                      \o "</div>"], "\n")
               \o "</div>">>
        ELSE LET rule == RenderBlock(View(nodes[k], <<k>>))
             IN IF rule.some THEN <<rule.string>> ELSE <<>>])

ExpectedDocument(nodes) == Separated(ExpectedFragments(nodes), "\n\n")

StartsWith(s, prefix) ==
    Len(prefix) <= Len(s) /\ SubSeq(s, 1, Len(prefix)) = prefix

EndsWith(s, suffix) ==
    Len(suffix) <= Len(s) /\ SubSeq(s, Len(s) - Len(suffix) + 1, Len(s)) = suffix

RECURSIVE TotalLen(_)
TotalLen(strings) ==
    IF strings = <<>> THEN 0 ELSE Len(Head(strings)) + TotalLen(Tail(strings))

-----------------------------------------------------------------------------
(* C5 *)

\* C5: for a text span convert_rich_text returns the content wrapped by the
\* bold wrap innermost, then the italic wrap, then the code wrap outermost,
\* each only when its flag is set (all 8 combinations); a span that is not
\* text gives the empty string.
C5_Expected(t) ==
    LET c == t.content
    IN CASE t.kind # "text" -> ""
         [] ~t.bold /\ ~t.italic /\ ~t.code -> c
         [] t.bold /\ ~t.italic /\ ~t.code -> "**" \o c \o "**"
         [] ~t.bold /\ t.italic /\ ~t.code -> "*" \o c \o "*"
         [] ~t.bold /\ ~t.italic /\ t.code -> Backtick \o c \o Backtick
         [] t.bold /\ t.italic /\ ~t.code -> "***" \o c \o "***"
         [] t.bold /\ ~t.italic /\ t.code ->
                Backtick \o "**" \o c \o "**" \o Backtick
         [] ~t.bold /\ t.italic /\ t.code ->
                Backtick \o "*" \o c \o "*" \o Backtick
         [] t.bold /\ t.italic /\ t.code ->
                Backtick \o "***" \o c \o "***" \o Backtick

\* C5: the string a call of convert_rich_text returned is the composed wrap
\* of its argument
C5_Theorem == status = "ok" => string = C5_Expected(text)

C5_Witness ==
    /\ status = "ok"
    /\ text = Span("text", "a", TRUE, FALSE, TRUE)
    /\ string = Backtick \o "**a**" \o Backtick

-----------------------------------------------------------------------------
(* C1 *)

\* C1: convert_blocks returns the fragments of the blocks whose rule yields
\* output, in input order, joined with "\n\n"; a block with no output
\* contributes nothing whatever its position; the empty sequence and a
\* sequence of no-output blocks give ""; paragraphs "A", "B" give "A\n\nB".
C1_Theorem ==
    status = "ok" =>
        /\ result = ExpectedDocument(page)
        /\ (\A k \in 1..Len(page) :
                ~IsColumnList(page[k]) /\ ~RenderBlock(View(page[k], <<k>>)).some)
            => result = ""
        /\ page = <<ParagraphOf("A"), ParagraphOf("B")>> => result = "A\n\nB"

C1_Witness ==
    /\ status = "ok"
    /\ page = <<ParagraphOf("X"), Leaf("unsupported"), ParagraphOf("Y")>>
    /\ result = "X\n\nY"

-----------------------------------------------------------------------------
(* C2 *)

\* C2: when a children().list() call fails during the expansion of a column
\* list, the top-level call ends by returning an error value: it neither
\* panics nor returns Ok.
C2_Claim == failed # {} => status = "err"

-----------------------------------------------------------------------------
(* C3 *)

\* the ids children().list() may be called with: the column lists with
\* has_children that are top-level or inside a column of such a list, and
\* the blocks those lists hold
RECURSIVE C3_FetchableIds(_, _)
C3_FetchableIds(nodes, parent) ==
    UNION {IF IsColumnList(nodes[k])
           THEN {parent \o <<k>>}
                \cup {parent \o <<k, c>> : c \in 1..Len(nodes[k].children)}
                \cup UNION {C3_FetchableIds(nodes[k].children[c].children,
                                            parent \o <<k, c>>) :
                                c \in 1..Len(nodes[k].children)}
           ELSE {} : k \in 1..Len(nodes)}

\* C3: children().list() is called only while a column_list block with
\* has_children = true is being expanded: a column_list with has_children =
\* false and a block of any other type, whatever its flag, cause no call.
C3_Theorem ==
    /\ \A n \in 1..Len(fetches) : fetches[n] \in C3_FetchableIds(page, <<>>)
    /\ inflight \subseteq C3_FetchableIds(page, <<>>)
    /\ \A d \in 1..Len(stack) :
            stack[d].pc # "loop" =>
                /\ stack[d].blocks[stack[d].i].type = "column_list"
                /\ stack[d].blocks[stack[d].i].has_children
    /\ (\A k \in 1..Len(page) : ~IsColumnList(page[k]))
            => fetches = <<>> /\ inflight = {}

C3_Witness ==
    /\ status = "ok"
    /\ Len(page) = 2
    /\ page[1].type = "column_list" /\ ~page[1].has_children
    /\ page[2].type = "column" /\ page[2].has_children
    /\ fetches = <<>>
    /\ result = ""

-----------------------------------------------------------------------------
(* C4 *)

\* the calls of children().list() a sibling sequence leads to, in order: per
\* column list its own id, then per column the column's id followed by the
\* calls the column's children lead to
RECURSIVE C4_FetchOrder(_, _)
C4_FetchOrder(nodes, parent) ==
    Concat([k \in 1..Len(nodes) |->
        IF IsColumnList(nodes[k])
        THEN <<parent \o <<k>>>>
             \o Concat([c \in 1..Len(nodes[k].children) |->
                    <<parent \o <<k, c>>>>
                    \o C4_FetchOrder(nodes[k].children[c].children, parent \o <<k, c>>)])
        ELSE <<>>])

IsPrefix(s, t) == Len(s) <= Len(t) /\ SubSeq(t, 1, Len(s)) = s

\* C4: the list's own children are fetched first, then the columns are
\* handled one at a time in the order fetched, column i fetched and fully
\* rendered (nested lists included) before the fetch for column i+1 is
\* issued: at most one fetch or recursive render is in progress, and the
\* columns' outputs are collected in fetch order.
C4_Theorem ==
    /\ Cardinality(inflight) <= 1
    /\ IsPrefix(fetches, C4_FetchOrder(page, <<>>))
    /\ status = "ok" => fetches = C4_FetchOrder(page, <<>>)
    /\ \A d \in 1..Len(stack) :
         LET f == stack[d]
         IN /\ d < Len(stack) <=> f.pc = "await_convert"
            /\ f.pc \in {"await_columns", "await_children"}
                    <=> inflight # {} /\ d = Len(stack)
            /\ f.pc = "await_columns" => inflight = {f.blocks[f.i].id}
            /\ f.pc = "await_children" => inflight = {f.columns[f.j].id}
            /\ f.pc \in {"columns", "await_children", "await_convert"} =>
                /\ f.columns = ListResults(f.blocks[f.i].id)
                /\ Len(f.content) = f.j - 1
                /\ \A c \in 1..Len(f.content) :
                        f.content[c] =
                            ExpectedDocument(ChildrenAt(page, f.columns[c].id))

\* a nested list of the first column has been expanded and has returned, and
\* the fetch for the second column is in flight
C4_Witness ==
    /\ Len(stack) = 1
    /\ Top.pc = "await_children"
    /\ Top.j = 2
    /\ Len(fetches) >= 5
    /\ \E k \in 1..Len(page[Top.i].children[1].children) :
            IsColumnList(page[Top.i].children[1].children[k])

-----------------------------------------------------------------------------
(* C6 *)

RECURSIVE C6_UnsupportedMet(_)
C6_UnsupportedMet(nodes) ==
    IF nodes = <<>> THEN 0
    ELSE (IF Head(nodes).type = "unsupported" THEN 1 ELSE 0)
         + (IF IsColumnList(Head(nodes))
            THEN C6_UnsupportedMet(Concat([c \in 1..Len(Head(nodes).children) |->
                                            Head(nodes).children[c].children]))
            ELSE 0)
         + C6_UnsupportedMet(Tail(nodes))

RECURSIVE C6_WithoutUnsupported(_)
C6_WithoutUnsupported(nodes) ==
    IF nodes = <<>> THEN <<>>
    ELSE IF Head(nodes).type = "unsupported" THEN C6_WithoutUnsupported(Tail(nodes))
    ELSE <<[Head(nodes) EXCEPT !.children =
                [c \in 1..Len(@) |->
                    [@[c] EXCEPT !.children = C6_WithoutUnsupported(@)]]]>>
         \o C6_WithoutUnsupported(Tail(nodes))

\* C6: every unsupported block met during a render causes one report on the
\* diagnostics channel, rendering goes on, and the returned string is the one
\* the sequence without that block gives.
C6_Claim ==
    status = "ok" =>
        /\ Len(stdout) = C6_UnsupportedMet(page)
        /\ result = ExpectedDocument(C6_WithoutUnsupported(page))

\* the part of C6 that the code keeps: the render goes on and the string is
\* the one the sequence without the unsupported blocks gives
C6_Continues ==
    status = "ok" => result = ExpectedDocument(C6_WithoutUnsupported(page))

-----------------------------------------------------------------------------
(* C7 *)

C7_Separator == "\n\n"

\* the separators the final join inserted: what the output holds beyond its
\* fragments
C7_Inserted == (Len(result) - TotalLen(ExpectedFragments(page))) \div Len(C7_Separator)

C7_NonEmpty == SelectSeq(ExpectedFragments(page), LAMBDA s : s # "")

-----------------------------------------------------------------------------
(* C8 *)

\* how often sub occurs in s: the positions of s at which sub starts
Occurrences(s, sub) ==
    Cardinality({p \in 1..Len(s) :
                    /\ p + Len(sub) - 1 <= Len(s)
                    /\ SubSeq(s, p, p + Len(sub) - 1) = sub})

C8_FlexOpen == "<div style=\"display: flex;\">"
C8_MarginOpen == "<div style=\"margin: 0 16px\">"

\* the fragment claimed for a column list: one flex <div> around one margin
\* <div> per column, in the order fetched, each holding convert_blocks of
\* the column's children
C8_Expected(list) ==
    C8_FlexOpen
    \o Separated([c \in 1..Len(list.children) |->
            C8_MarginOpen \o ExpectedDocument(list.children[c].children) \o "</div>"],
         "\n")
    \o "</div>"

C8_HasNestedList(list) ==
    \E c \in 1..Len(list.children) :
        \E k \in 1..Len(list.children[c].children) :
            IsColumnList(list.children[c].children[k])

\* C8: a column_list with has_children whose fetch returns n columns renders
\* to exactly one flex-row <div> holding exactly n margin <div>s, the i-th
\* with convert_blocks of the i-th column's children, in fetch order.
C8_Theorem ==
    /\ \A d \in 1..Len(stack) :
         LET f == stack[d]
         IN (f.pc = "loop" /\ f.i > 1 /\ ExpandsColumns(f.blocks[f.i - 1])) =>
              LET id == f.blocks[f.i - 1].id
                  list == ChildrenAt(page, SubSeq(id, 1, Len(id) - 1))[id[Len(id)]]
                  fragment == f.output[Len(f.output)]
              IN /\ f.output # <<>>
                 /\ fragment = C8_Expected(list)
                 /\ ~C8_HasNestedList(list) =>
                        /\ Occurrences(fragment, C8_FlexOpen) = 1
                        /\ Occurrences(fragment, C8_MarginOpen) = Len(list.children)
    /\ (status = "ok"
        /\ page = <<ColumnList(<<Column(<<ParagraphOf("X")>>),
                                 Column(<<ParagraphOf("Y")>>)>>)>>)
        => result = "<div style=\"display: flex;\">"
                    \o "<div style=\"margin: 0 16px\">X</div>" \o "\n"
                    \o "<div style=\"margin: 0 16px\">Y</div>"
                    \o "</div>"

C8_Witness ==
    /\ status = "ok"
    /\ page = <<ColumnList(<<Column(<<ParagraphOf("X")>>),
                             Column(<<ParagraphOf("Y")>>)>>)>>
    /\ Occurrences(result, C8_MarginOpen) = 2
    /\ fetches = <<<<1>>, <<1, 1>>, <<1, 2>>>>

-----------------------------------------------------------------------------
(* C9 *)

C9_IsMedia(node) == node.type \in {"image", "video"}

\* the fragments claimed for a sequence of image and video blocks
RECURSIVE C9_Expected(_)
C9_Expected(nodes) ==
    IF nodes = <<>> THEN <<>>
    ELSE (IF Head(nodes).file.kind # "external" THEN <<>>
          ELSE IF Head(nodes).type = "image"
          THEN <<"<img style=\"margin: 0 auto\" src=\"" \o Head(nodes).file.url \o "\">">>
          ELSE <<"<video controls src=\"" \o Head(nodes).file.url \o "\" />">>)
         \o C9_Expected(Tail(nodes))

\* C9: an image or video block yields a fragment if and only if its file is
\* the external variant: the <img style="margin: 0 auto" src="u"> tag, the
\* <video controls src="u" /> tag; a hosted image or video gives no output.
C9_Theorem ==
    /\ (status = "ok" /\ \A k \in 1..Len(page) : C9_IsMedia(page[k]))
            => result = Separated(C9_Expected(page), "\n\n")
    /\ \A d \in 1..Len(stack) :
         LET f == stack[d]
         IN (f.pc = "loop" /\ \A k \in 1..(f.i - 1) : C9_IsMedia(f.blocks[k]))
                => f.output = C9_Expected(SubSeq(f.blocks, 1, f.i - 1))

C9_Witness ==
    /\ status = "ok"
    /\ Len(page) = 2
    /\ page[1].type = "image" /\ page[1].file = Hosted("http://s3/y.png")
    /\ page[2].type = "image" /\ page[2].file = External("http://x/y.png")
    /\ result = "<img style=\"margin: 0 auto\" src=\"http://x/y.png\">"

-----------------------------------------------------------------------------
(* C10 *)

\* 1 + the number of columns, summed over the column lists reached
RECURSIVE C10_FetchCount(_)
C10_FetchCount(nodes) ==
    IF nodes = <<>> THEN 0
    ELSE (IF IsColumnList(Head(nodes))
          THEN 1 + Len(Head(nodes).children)
               + C10_FetchCount(Concat([c \in 1..Len(Head(nodes).children) |->
                                            Head(nodes).children[c].children]))
          ELSE 0)
         + C10_FetchCount(Tail(nodes))

\* C10: with a fetcher that always succeeds the top-level call eventually
\* returns Ok, having issued 1 + (number of columns) calls of
\* children().list() per column list reached, nested lists included.
C10_Theorem ==
    /\ <>(status = "ok")
    /\ [](status = "ok" => Len(fetches) = C10_FetchCount(page))

\* a list nested in a column of a list has been expanded
C10_Witness ==
    /\ status = "ok"
    /\ Len(page) = 1
    /\ IsColumnList(page[1])
    /\ C8_HasNestedList(page[1])
    /\ Len(fetches) = C10_FetchCount(page)
    /\ Len(fetches) >= 4

====
